---- MODULE Spec2Model ----
(***************************************************************************)
(* Audio-analyzer: a model of services/geminiService.ts (the four Gemini   *)
(* operations, extractAudioFromVideo, bufferToWav, blobToBase64, and the   *)
(* SubtitleList component that shares the file) and of                     *)
(* components/VideoPlayer.tsx (the event-listener effect).                 *)
(*                                                                         *)
(* The module holds five specifications over disjoint groups of variables: *)
(*   SpecWav     bufferToWav as a pure function of an AudioBuffer          *)
(*   SpecApi     one invocation of a Gemini operation                      *)
(*   SpecExtract extractAudioFromVideo, stage by stage                     *)
(*   SpecList    one render of SubtitleList                                *)
(*   SpecPlayer  the life of one VideoPlayer component                     *)
(***************************************************************************)
EXTENDS Integers, Sequences, FiniteSets, TLC

VARIABLES
    \* ---- bufferToWav
    abuffer,      \* the AudioBuffer argument
    wavPc,        \* "call" | "done"
    wavOut,       \* bytes of the returned Blob (<<>> before the call returns)
    \* ---- Gemini operations
    apiOp,        \* which exported operation is invoked
    apiArg,       \* its argument
    apiPc,        \* "start" | "awaiting" | "settled"
    apiRequests,  \* payloads handed to ai.models.generateContent, in order
    apiResponse,  \* how the request settled
    apiLog,       \* console.error calls, in order
    apiOutcome,   \* how the returned promise settled
    \* ---- extractAudioFromVideo
    xPc,          \* the stage the async function is suspended in / about to run
    xTrace,       \* stage start / end events, in order
    xAudio,       \* decoded AudioBuffer (duration only matters)
    xRendered,    \* AudioBuffer rendered by the OfflineAudioContext
    xBlob,        \* bytes of the WAV blob
    xReader,      \* FileReader: state and result
    xOutcome,     \* how the returned promise settled
    \* ---- SubtitleList
    subtitles,    \* the array object passed as the subtitles prop
    passed,       \* its contents at the time of the render
    rendered,     \* what the render returned
    listPc,       \* "props" | "rendered"
    \* ---- VideoPlayer
    mounted,      \* component instance alive
    src,          \* src prop of the last render
    cbs,          \* callback props of the last render
    videoRef,     \* videoRef.current
    nextElem,     \* id of the next <video> element React will create
    listeners,    \* per element: the set of registered (type, handler) pairs
    effect,       \* the effect whose cleanup is pending, or NoEffect
    effectCbs,    \* callback props of the most recent render whose effect ran
    calls         \* the last media event and the callback-prop calls it made

wavVars == <<abuffer, wavPc, wavOut>>
apiVars == <<apiOp, apiArg, apiPc, apiRequests, apiResponse, apiLog, apiOutcome>>
xVars == <<xPc, xTrace, xAudio, xRendered, xBlob, xReader, xOutcome>>
listVars == <<subtitles, passed, rendered, listPc>>
playerVars == <<mounted, src, cbs, videoRef, nextElem, listeners, effect, effectCbs, calls>>
vars == <<wavVars, apiVars, xVars, listVars, playerVars>>
notWav == <<apiVars, xVars, listVars, playerVars>>
notApi == <<wavVars, xVars, listVars, playerVars>>
notX == <<wavVars, apiVars, listVars, playerVars>>
notList == <<wavVars, apiVars, xVars, playerVars>>
notPlayer == <<wavVars, apiVars, xVars, listVars>>

----------------------------------------------------------------------------
(* Generic helpers *)

Min(a, b) == IF a < b THEN a ELSE b
Max(a, b) == IF a > b THEN a ELSE b

\* JavaScript's `x | 0` on a quotient a / b (b > 0): truncation toward zero.
TruncDiv(a, b) == IF a >= 0 THEN a \div b ELSE -((-a) \div b)

----------------------------------------------------------------------------
(* bufferToWav                                                             *)

\* Bounds of the AudioBuffer inputs.
MaxFrames == 46
MaxChan == 2
PatLen == 3

\* Bytes written before the sample data (the offset literal of the writer).
HeaderLen == 44

\* Float samples are modelled as exact rationals num / SampleDen.
SampleDen == 4
SampleNums == {-5, -3, -1, 2, 5}
SampleRates == {16000, 44100}

\* The input buffers: channel i holds the pattern pat repeated, started i
\* samples in. The frame counts are those below, at and above the length of
\* the header, whose write position the data loop goes on from.
FrameCounts == {0, 1, 2} \cup ((HeaderLen - 1)..MaxFrames)

AudioBufferOf(n, c, r, pat) ==
    [numberOfChannels |-> c, length |-> n, sampleRate |-> r,
     channels |-> [i \in 1..c |-> [k \in 1..n |-> pat[((k - 1 + i - 1) % PatLen) + 1]]]]

AudioBuffers ==
    {AudioBufferOf(n, c, r, pat) :
        n \in FrameCounts, c \in 1..MaxChan, r \in SampleRates,
        pat \in [1..PatLen -> SampleNums]}

\* new ArrayBuffer(length): zero-filled.
NewArrayBuffer(length) == [o \in 1..length |-> 0]

\* DataView.setUint16 / setUint32 / setInt16 with littleEndian = true: the
\* two's-complement bytes of the value, low byte first (byte k of data is
\* floor(data / 256^k) mod 256, also for negative data).
RECURSIVE Pow256(_)
Pow256(w) == IF w = 0 THEN 1 ELSE 256 * Pow256(w - 1)

ViewSetLE(view, byteOffset, data, width) ==
    [o \in 1..Len(view) |->
        IF o - 1 >= byteOffset /\ o - 1 < byteOffset + width
        THEN (data \div Pow256(o - 1 - byteOffset)) % 256
        ELSE view[o]]

\* DataView.getUint16 / getUint32 with littleEndian = true.
RECURSIVE ViewGetLE(_, _, _)
ViewGetLE(view, byteOffset, width) ==
    IF width = 0 THEN 0
    ELSE view[byteOffset + 1] + 256 * ViewGetLE(view, byteOffset + 1, width - 1)

\* DataView.getInt16 with littleEndian = true.
ViewGetInt16(view, byteOffset) ==
    LET u == ViewGetLE(view, byteOffset, 2)
    IN  IF u >= 32768 THEN u - 65536 ELSE u

\* Variant of setUint16 that stores the high byte first.
MutSetUint16(st, data) ==
    [view |-> [o \in 1..Len(st.view) |->
                  IF o - 1 = st.pos THEN ((data % 65536) \div 256) % 256
                  ELSE IF o - 1 = st.pos + 1 THEN data % 256
                  ELSE st.view[o]],
     pos |-> st.pos + 2]

\* The inner helpers of bufferToWav: write at pos, advance pos.
setUint16(st, data) ==
    [view |-> ViewSetLE(st.view, st.pos, data, 2), pos |-> st.pos + 2]

setUint32(st, data) ==
    [view |-> ViewSetLE(st.view, st.pos, data, 4), pos |-> st.pos + 4]

\* Math.max(-1, Math.min(1, sample)), then
\* (0.5 + sample < 0 ? sample * 32768 : sample * 32767) | 0.
Quantise(num) ==
    LET clamped == Max(-SampleDen, Min(SampleDen, num))
    IN  IF SampleDen + 2 * clamped < 0
        THEN TruncDiv(clamped * 32768, SampleDen)
        ELSE TruncDiv(clamped * 32767, SampleDen)

\* for (i = 0; i < numOfChan; i++) { ... view.setInt16(44 + offset, ...); offset += 2 }
RECURSIVE InterleaveFrame(_, _, _, _, _)
InterleaveFrame(view, ab, pos, offset, i) ==
    IF i < ab.numberOfChannels
    THEN InterleaveFrame(
            ViewSetLE(view, HeaderLen + offset, Quantise(ab.channels[i + 1][pos + 1]), 2),
            ab, pos, offset + 2, i + 1)
    ELSE view

\* while (pos < abuffer.length) { <frame>; pos++ }
RECURSIVE WriteData(_, _, _, _)
WriteData(view, ab, pos, offset) ==
    IF pos < ab.length
    THEN WriteData(InterleaveFrame(view, ab, pos, offset, 0), ab, pos + 1,
                   offset + 2 * ab.numberOfChannels)
    ELSE view

\* The header writes, in program order; pos is shared with the data loop.
WriteHeader(ab, length) ==
    LET numOfChan == ab.numberOfChannels
        s0  == [view |-> NewArrayBuffer(length), pos |-> 0]
        s1  == setUint32(s0, 1179011410)               \* 0x46464952 "RIFF"
        s2  == setUint32(s1, length - 8)
        s3  == setUint32(s2, 1163280727)               \* 0x45564157 "WAVE"
        s4  == setUint32(s3, 544501094)                \* 0x20746d66 "fmt "
        s5  == setUint32(s4, 16)
        s6  == setUint16(s5, 1)
        s7  == setUint16(s6, numOfChan)
        s8  == setUint32(s7, ab.sampleRate)
        s9  == setUint32(s8, ab.sampleRate * 2 * numOfChan)
        s10 == setUint16(s9, numOfChan * 2)
        s11 == setUint16(s10, 16)
        s12 == setUint32(s11, 1635017060)              \* 0x61746164 "data"
        s13 == setUint32(s12, length - s12.pos - 4)
    IN  s13

\* bufferToWav(abuffer): the bytes of the returned Blob.
bufferToWav(ab) ==
    LET length == ab.length * ab.numberOfChannels * 2 + HeaderLen
        hdr == WriteHeader(ab, length)
    IN  WriteData(hdr.view, ab, hdr.pos, 0)

\* The call, as one step: the function is synchronous.
WavIdle == abuffer = <<>> /\ wavPc = "idle" /\ wavOut = <<>>

WavInit == abuffer \in AudioBuffers /\ wavPc = "call" /\ wavOut = <<>>

BufferToWavCall ==
    /\ wavPc = "call"
    /\ wavOut' = bufferToWav(abuffer)
    /\ wavPc' = "done"
    /\ UNCHANGED <<abuffer, notWav>>

----------------------------------------------------------------------------
(* Strings, as sequences of one-character strings                          *)

MaxTextLen == 3
MaxArgLen == 2
MaxBatch == 2

Alphabet == {" ", "1", "[", "]"}
Whitespace == {" "}

StringsUpTo(n) == UNION {[1..k -> Alphabet] : k \in 0..n}

\* String.prototype.trim
RECURSIVE TrimStart(_)
TrimStart(s) == IF s # <<>> /\ Head(s) \in Whitespace THEN TrimStart(Tail(s)) ELSE s

RECURSIVE TrimEnd(_)
TrimEnd(s) ==
    IF s # <<>> /\ s[Len(s)] \in Whitespace THEN TrimEnd(SubSeq(s, 1, Len(s) - 1)) ELSE s

Trim(s) == TrimEnd(TrimStart(s))

\* Truthiness of a string-or-undefined value.
Undefined == <<"undefined">>
Truthy(s) == s # Undefined /\ s # <<>>

\* JSON.stringify of an array of strings (no character of Alphabet needs escaping).
RECURSIVE JoinQuoted(_)
JoinQuoted(texts) ==
    IF texts = <<>> THEN <<>>
    ELSE <<"\"">> \o Head(texts) \o <<"\"">> \o
         (IF Len(texts) > 1 THEN <<",">> ELSE <<>>) \o JoinQuoted(Tail(texts))

JSONStringify(texts) == <<"[">> \o JoinQuoted(texts) \o <<"]">>

\* JSON.parse restricted to the texts over Alphabet: whitespace, numbers made
\* of the digit 1, and arrays of at most one element (Alphabet has no comma).
\* The result is [ok, value] ; ok = FALSE is a thrown SyntaxError.
SkipWs(s, i) ==
    LET rest == {j \in i..Len(s) : s[j] \notin Whitespace}
    IN  IF rest = {} THEN Len(s) + 1 ELSE CHOOSE j \in rest : \A k \in rest : j <= k

DigitsEnd(s, i) ==
    LET rest == {j \in i..Len(s) : s[j] # "1"}
    IN  IF rest = {} THEN Len(s) + 1 ELSE CHOOSE j \in rest : \A k \in rest : j <= k

RECURSIVE NumberOf(_)
NumberOf(digits) ==
    IF digits = <<>> THEN 0 ELSE 10 * NumberOf(SubSeq(digits, 1, Len(digits) - 1)) + 1

RECURSIVE ParseValue(_, _)
ParseValue(s, i0) ==
    LET i == SkipWs(s, i0)
    IN  IF i > Len(s) THEN [ok |-> FALSE, value |-> Undefined, next |-> i]
        ELSE IF s[i] = "1"
        THEN LET e == DigitsEnd(s, i)
             IN  [ok |-> TRUE, value |-> NumberOf(SubSeq(s, i, e - 1)), next |-> e]
        ELSE IF s[i] = "["
        THEN LET j == SkipWs(s, i + 1)
             IN  IF j <= Len(s) /\ s[j] = "]"
                 THEN [ok |-> TRUE, value |-> <<>>, next |-> j + 1]
                 ELSE LET elem == ParseValue(s, j)
                          k == SkipWs(s, elem.next)
                      IN  IF elem.ok /\ k <= Len(s) /\ s[k] = "]"
                          THEN [ok |-> TRUE, value |-> <<elem.value>>, next |-> k + 1]
                          ELSE [ok |-> FALSE, value |-> Undefined, next |-> k]
        ELSE [ok |-> FALSE, value |-> Undefined, next |-> i]

JSONParse(s) ==
    LET v == ParseValue(s, 1)
    IN  IF v.ok /\ SkipWs(s, v.next) > Len(s)
        THEN [ok |-> TRUE, value |-> v.value]
        ELSE [ok |-> FALSE, value |-> Undefined]

----------------------------------------------------------------------------
(* The Gemini operations                                                   *)

Ops == {"generateSceneDescription", "translateText", "translateBatch", "analyzeAudioDeeply"}
Languages == {"Spanish", "English"}

\* Promise states.
Pending == [state |-> "pending"]
Fulfilled(v) == [state |-> "fulfilled", value |-> v]
Rejected(e) == [state |-> "rejected", reason |-> e]

\* Error values.
Error(message) == [name |-> "Error", message |-> message]
JSONSyntaxError == [name |-> "SyntaxError", message |-> "Unexpected token in JSON"]
NetworkErrors == {[name |-> "TypeError", message |-> "Failed to fetch"],
                  [name |-> "ApiError", message |-> "429 RESOURCE_EXHAUSTED"]}

\* base64 images, as <<optional data-URL prefix, payload>>.
ImagePrefixes == {"data:image/png;base64,", "data:image/jpeg;base64,", "data:image/jpg;base64,"}
Images == {<<"data:image/jpeg;base64,", "/9j/4AAQ">>, <<"data:image/png;base64,", "iVBORw0K">>,
           <<"data:image/gif;base64,", "R0lGODlh">>, <<"/9j/4AAQ">>}

\* base64Image.replace(/^data:image\/(png|jpeg|jpg);base64,/, "")
StripImagePrefix(img) == IF img # <<>> /\ Head(img) \in ImagePrefixes THEN Tail(img) ELSE img

BatchTexts == {<<"1">>, <<" ">>}
Batches == UNION {[1..k -> BatchTexts] : k \in 0..MaxBatch}

ApiArgs(op) ==
    CASE op = "generateSceneDescription" -> {[base64Image |-> img] : img \in Images}
      [] op = "translateText" ->
            {[text |-> t, targetLanguage |-> l] : t \in StringsUpTo(MaxArgLen), l \in Languages}
      [] op = "translateBatch" ->
            {[texts |-> b, targetLanguage |-> l] : b \in Batches, l \in Languages}
      [] op = "analyzeAudioDeeply" -> {[base64Audio |-> <<"UklGRg==">>]}

\* The guard before the try block: the value returned without any request, if any.
EarlyReturn(op, arg) ==
    CASE op = "translateText" /\ (arg.text = <<>> \/ Trim(arg.text) = <<>>) -> Fulfilled(<<>>)
      [] op = "translateBatch" /\ Len(arg.texts) = 0 -> Fulfilled(<<>>)
      [] OTHER -> Pending

\* The argument of ai.models.generateContent (what varies with the input).
Payload(op, arg) ==
    CASE op = "generateSceneDescription" ->
            [mimeType |-> "image/jpeg", data |-> StripImagePrefix(arg.base64Image)]
      [] op = "translateText" -> [text |-> arg.text, language |-> arg.targetLanguage]
      [] op = "translateBatch" ->
            [text |-> JSONStringify(arg.texts), language |-> arg.targetLanguage]
      [] op = "analyzeAudioDeeply" -> [mimeType |-> "audio/wav", data |-> arg.base64Audio]

\* Variant of GenerateContentCalls that sends one request per text of a batch.
MutGenerateContentCalls(op, arg) ==
    IF op = "translateBatch"
    THEN [i \in 1..Len(arg.texts) |->
            [text |-> JSONStringify(<<arg.texts[i]>>), language |-> arg.targetLanguage]]
    ELSE <<Payload(op, arg)>>

\* The generateContent calls one invocation makes once past its guard.
GenerateContentCalls(op, arg) == <<Payload(op, arg)>>

\* How a request can settle: rejected with an error, or fulfilled with a
\* response whose .text is a string or undefined.
Responses ==
    {[kind |-> "rejected", error |-> e] : e \in NetworkErrors} \cup
    {[kind |-> "fulfilled", text |-> t] : t \in StringsUpTo(MaxTextLen) \cup {Undefined}}

ErrorLabel(op) ==
    CASE op = "generateSceneDescription" -> "Gemini API Error:"
      [] op = "translateText" -> "Gemini Translation Error:"
      [] op = "translateBatch" -> "Batch Translation Error:"
      [] op = "analyzeAudioDeeply" -> "Gemini Audio Analysis Error:"

NoTextError(op) ==
    CASE op = "generateSceneDescription" -> Error("No text generated from Gemini.")
      [] op = "translateText" -> Error("Translation returned empty text.")
      [] op = "translateBatch" -> Error("No JSON generated for translation batch.")
      [] op = "analyzeAudioDeeply" -> Error("No JSON generated.")

ParsesJSON(op) == op \in {"translateBatch", "analyzeAudioDeeply"}

\* Variant of CatchRethrow that throws a new Error in place of the caught one.
MutCatchRethrow(label, error) ==
    [log |-> <<[label |-> label, error |-> error]>>,
     outcome |-> Rejected(Error("Request failed"))]

\* catch (error) { console.error(label, error); throw error; }
CatchRethrow(label, error) ==
    [log |-> <<[label |-> label, error |-> error]>>, outcome |-> Rejected(error)]

\* The try block after the await, given how the request settled.
AfterAwait(op, resp) ==
    IF resp.kind = "rejected" THEN CatchRethrow(ErrorLabel(op), resp.error)
    ELSE IF Truthy(resp.text)
    THEN IF ParsesJSON(op)
         THEN LET parsed == JSONParse(resp.text)
              IN  IF parsed.ok THEN [log |-> <<>>, outcome |-> Fulfilled(parsed.value)]
                  ELSE CatchRethrow(ErrorLabel(op), JSONSyntaxError)
         ELSE [log |-> <<>>, outcome |-> Fulfilled(Trim(resp.text))]
    ELSE CatchRethrow(ErrorLabel(op), NoTextError(op))

ApiIdle ==
    /\ apiOp = "none" /\ apiArg = <<>> /\ apiPc = "idle" /\ apiRequests = <<>>
    /\ apiResponse = <<>> /\ apiLog = <<>> /\ apiOutcome = Pending

ApiInit ==
    /\ apiOp \in Ops
    /\ apiArg \in ApiArgs(apiOp)
    /\ apiPc = "start"
    /\ apiRequests = <<>>
    /\ apiResponse = <<>>
    /\ apiLog = <<>>
    /\ apiOutcome = Pending

\* The call up to its first await (or its early return).
ApiStart ==
    /\ apiPc = "start"
    /\ IF EarlyReturn(apiOp, apiArg) # Pending
       THEN /\ apiOutcome' = EarlyReturn(apiOp, apiArg)
            /\ apiPc' = "settled"
            /\ UNCHANGED apiRequests
       ELSE /\ apiRequests' = apiRequests \o GenerateContentCalls(apiOp, apiArg)
            /\ apiPc' = "awaiting"
            /\ UNCHANGED apiOutcome
    /\ UNCHANGED <<apiOp, apiArg, apiResponse, apiLog, notApi>>

\* The request settles and the function runs to its end.
ApiSettle ==
    /\ apiPc = "awaiting"
    /\ \E resp \in Responses :
          LET r == AfterAwait(apiOp, resp)
          IN  /\ apiResponse' = resp
              /\ apiLog' = apiLog \o r.log
              /\ apiOutcome' = r.outcome
    /\ apiPc' = "settled"
    /\ UNCHANGED <<apiOp, apiArg, apiRequests, notApi>>

----------------------------------------------------------------------------
(* extractAudioFromVideo and blobToBase64                                  *)

TargetSampleRate == 16000

Stages == <<"readFile", "decode", "resample", "encode", "base64">>
StageIndex(stage) == CHOOSE i \in 1..Len(Stages) : Stages[i] = stage
Ev(ev, stage) == [ev |-> ev, stage |-> stage]

Null == <<"null">>

\* What decodeAudioData can deliver: frame count and sample rate of the track.
DecodedBuffers ==
    {[length |-> n, sampleRate |-> r] : n \in {0, 1, MaxFrames}, r \in {16000, 48000}}

\* audioBuffer.duration * targetSampleRate, converted to the unsigned long the
\* OfflineAudioContext constructor takes (exact arithmetic, fraction dropped).
OfflineLength(audio) == (audio.length * TargetSampleRate) \div audio.sampleRate

\* What startRendering can deliver on a (1, length, 16000) context.
RenderedBuffers(length) ==
    {AudioBufferOf(length, 1, TargetSampleRate, pat) : pat \in [1..PatLen -> SampleNums]}

StageErrors ==
    [readFile |-> [name |-> "NotReadableError"], decode |-> [name |-> "EncodingError"],
     resample |-> [name |-> "InvalidStateError"]]
NotSupportedError == [name |-> "NotSupportedError"]

\* The base64 alphabet and btoa-style encoding of a byte sequence.
B64 == <<"A","B","C","D","E","F","G","H","I","J","K","L","M","N","O","P",
         "Q","R","S","T","U","V","W","X","Y","Z","a","b","c","d","e","f",
         "g","h","i","j","k","l","m","n","o","p","q","r","s","t","u","v",
         "w","x","y","z","0","1","2","3","4","5","6","7","8","9","+","/">>

RECURSIVE Base64From(_, _)
Base64From(bytes, i) ==
    LET left == Len(bytes) - i + 1
    IN  IF left <= 0 THEN <<>>
        ELSE IF left = 1
        THEN <<B64[(bytes[i] \div 4) + 1], B64[((bytes[i] % 4) * 16) + 1], "=", "=">>
        ELSE IF left = 2
        THEN <<B64[(bytes[i] \div 4) + 1],
               B64[((bytes[i] % 4) * 16 + bytes[i + 1] \div 16) + 1],
               B64[((bytes[i + 1] % 16) * 4) + 1], "=">>
        ELSE <<B64[(bytes[i] \div 4) + 1],
               B64[((bytes[i] % 4) * 16 + bytes[i + 1] \div 16) + 1],
               B64[((bytes[i + 1] % 16) * 4 + bytes[i + 2] \div 64) + 1],
               B64[(bytes[i + 2] % 64) + 1]>> \o Base64From(bytes, i + 3)

Base64(bytes) == Base64From(bytes, 1)

\* FileReader.readAsDataURL on a Blob of type audio/wav: the result string.
DataURL(bytes) == <<"data:audio/wav;base64", ",">> \o Base64(bytes)

\* String.prototype.split(sep): the pieces between the separators.
RECURSIVE Split(_, _)
Split(str, sep) ==
    LET at == {i \in 1..Len(str) : str[i] = sep}
    IN  IF at = {} THEN <<str>>
        ELSE LET i == CHOOSE j \in at : \A k \in at : j <= k
             IN  <<SubSeq(str, 1, i - 1)>> \o Split(SubSeq(str, i + 1, Len(str)), sep)

\* A promise settles once: later resolve / reject calls are ignored.
SettleOnce(p, q) == IF p.state = "pending" THEN q ELSE p

\* The two handlers blobToBase64 installs, run on one FileReader event.
\* onloadend with a null result throws inside the handler before resolve.
ReaderHandler(p, event, result) ==
    IF event = "error" THEN SettleOnce(p, Rejected([type |-> "error"]))
    ELSE IF event = "loadend"
    THEN IF result = Null THEN p
         ELSE LET pieces == Split(result, ",")
              IN  SettleOnce(p, Fulfilled(IF Len(pieces) >= 2 THEN pieces[2] ELSE Undefined))
    ELSE p

\* The events a FileReader fires for one read, in order.
ReaderEvents(success) == IF success THEN <<"load", "loadend">> ELSE <<"error", "loadend">>

RECURSIVE RunReaderEvents(_, _, _)
RunReaderEvents(p, events, result) ==
    IF events = <<>> THEN p
    ELSE RunReaderEvents(ReaderHandler(p, Head(events), result), Tail(events), result)

\* Variant of OnRejected that swallows the rejection and goes on to the next stage.
MutOnRejected(stage, error) ==
    [events |-> <<Ev("fail", stage), Ev("start", Stages[StageIndex(stage) + 1])>>,
     pc |-> Stages[StageIndex(stage) + 1], outcome |-> Pending]

\* An awaited promise rejects: the async function ends, its promise rejects.
OnRejected(stage, error) ==
    [events |-> <<Ev("fail", stage)>>, pc |-> "done", outcome |-> Rejected(error)]

XIdle ==
    /\ xPc = "idle" /\ xTrace = <<>> /\ xAudio = Null /\ xRendered = Null
    /\ xBlob = <<>> /\ xReader = Null /\ xOutcome = Pending

XInit ==
    /\ xPc = "call" /\ xTrace = <<>> /\ xAudio = Null /\ xRendered = Null
    /\ xBlob = <<>> /\ xReader = Null /\ xOutcome = Pending

\* extractAudioFromVideo(videoFile) up to the first await.
XCall ==
    /\ xPc = "call"
    /\ xTrace' = <<Ev("start", "readFile")>>
    /\ xPc' = "readFile"
    /\ UNCHANGED <<xAudio, xRendered, xBlob, xReader, xOutcome, notX>>

\* videoFile.arrayBuffer() settles; on success decodeAudioData is started.
XReadFileSettles ==
    /\ xPc = "readFile"
    /\ \E ok \in BOOLEAN :
          IF ok
          THEN /\ xTrace' = xTrace \o <<Ev("end", "readFile"), Ev("start", "decode")>>
               /\ xPc' = "decode"
               /\ UNCHANGED xOutcome
          ELSE LET r == OnRejected("readFile", StageErrors.readFile)
               IN  /\ xTrace' = xTrace \o r.events
                   /\ xPc' = r.pc
                   /\ xOutcome' = r.outcome
    /\ UNCHANGED <<xAudio, xRendered, xBlob, xReader, notX>>

\* decodeAudioData settles; on success the OfflineAudioContext is built (the
\* constructor throws on a zero length) and startRendering is called.
XDecodeSettles ==
    /\ xPc = "decode"
    /\ \/ \E audio \in DecodedBuffers :
             /\ xAudio' = audio
             /\ IF OfflineLength(audio) = 0
                THEN /\ xTrace' = xTrace \o <<Ev("end", "decode"), Ev("start", "resample"),
                                             Ev("fail", "resample")>>
                     /\ xPc' = "done"
                     /\ xOutcome' = Rejected(NotSupportedError)
                ELSE /\ xTrace' = xTrace \o <<Ev("end", "decode"), Ev("start", "resample")>>
                     /\ xPc' = "resample"
                     /\ UNCHANGED xOutcome
       \/ LET r == OnRejected("decode", StageErrors.decode)
          IN  /\ xTrace' = xTrace \o r.events
              /\ xPc' = r.pc
              /\ xOutcome' = r.outcome
              /\ UNCHANGED xAudio
    /\ UNCHANGED <<xRendered, xBlob, xReader, notX>>

\* startRendering settles; on success bufferToWav runs and blobToBase64
\* starts the FileReader.
XRenderSettles ==
    /\ xPc = "resample"
    /\ \/ \E buf \in RenderedBuffers(OfflineLength(xAudio)) :
             /\ xRendered' = buf
             /\ xBlob' = bufferToWav(buf)
             /\ xReader' = [readyState |-> "LOADING", result |-> Null]
             /\ xTrace' = xTrace \o <<Ev("end", "resample"), Ev("start", "encode"),
                                      Ev("end", "encode"), Ev("start", "base64")>>
             /\ xPc' = "base64"
             /\ UNCHANGED xOutcome
       \/ LET r == OnRejected("resample", StageErrors.resample)
          IN  /\ xTrace' = xTrace \o r.events
              /\ xPc' = r.pc
              /\ xOutcome' = r.outcome
              /\ UNCHANGED <<xRendered, xBlob, xReader>>
    /\ UNCHANGED <<xAudio, notX>>

\* The FileReader finishes, with the result or with an error; its events run
\* the handlers, and the function's promise follows blobToBase64's.
XReaderFinishes ==
    /\ xPc = "base64"
    /\ \E success \in BOOLEAN :
          LET result == IF success THEN DataURL(xBlob) ELSE Null
              p == RunReaderEvents(Pending, ReaderEvents(success), result)
          IN  /\ xReader' = [readyState |-> "DONE", result |-> result]
              /\ xOutcome' = p
              /\ xTrace' = xTrace \o
                    <<Ev(IF p.state = "fulfilled" THEN "end" ELSE "fail", "base64")>>
    /\ xPc' = "done"
    /\ UNCHANGED <<xAudio, xRendered, xBlob, notX>>

----------------------------------------------------------------------------
(* SubtitleList                                                            *)

MaxSubs == 3
MaxTime == 2
SubtitleIds == {"a", "b", "c"}

SubtitleNodes == {[id |-> i, timestamp |-> t] : i \in SubtitleIds, t \in 0..MaxTime}
SubtitleArrays == UNION {[1..k -> SubtitleNodes] : k \in 0..MaxSubs}

\* Variant of CompareByTimestamp with the operands swapped.
MutCompareByTimestamp(a, b) == b.timestamp - a.timestamp

\* (a, b) => a.timestamp - b.timestamp
CompareByTimestamp(a, b) == a.timestamp - b.timestamp

\* Array.prototype.sort with the comparator above: stable, so an element
\* goes after every element that does not compare greater than it.
InsertSorted(sorted, x) ==
    LET greater == {i \in 1..Len(sorted) : CompareByTimestamp(sorted[i], x) > 0}
        at == IF greater = {} THEN Len(sorted) + 1
              ELSE CHOOSE i \in greater : \A j \in greater : i <= j
    IN  SubSeq(sorted, 1, at - 1) \o <<x>> \o SubSeq(sorted, at, Len(sorted))

RECURSIVE ArraySort(_)
ArraySort(arr) ==
    IF arr = <<>> THEN <<>>
    ELSE InsertSorted(ArraySort(SubSeq(arr, 1, Len(arr) - 1)), arr[Len(arr)])

\* One render: the placeholder for an empty prop, else one item per element
\* of the sorted copy. array is the prop's contents after the render.
SubtitleListRender(subs) ==
    IF Len(subs) = 0 THEN [array |-> subs, out |-> [kind |-> "placeholder", items |-> <<>>]]
    ELSE LET copy == [i \in 1..Len(subs) |-> subs[i]]
             sortedSubtitles == ArraySort(copy)
         IN  [array |-> subs, out |-> [kind |-> "list", items |-> sortedSubtitles]]

ListIdle == subtitles = <<>> /\ passed = <<>> /\ rendered = Null /\ listPc = "idle"

ListInit ==
    /\ subtitles \in SubtitleArrays
    /\ passed = subtitles
    /\ rendered = Null
    /\ listPc = "props"

RenderSubtitleList ==
    /\ listPc = "props"
    /\ LET r == SubtitleListRender(subtitles)
       IN  /\ subtitles' = r.array
           /\ rendered' = r.out
    /\ listPc' = "rendered"
    /\ UNCHANGED <<passed, notList>>

----------------------------------------------------------------------------
(* VideoPlayer                                                             *)

MaxElems == 3

\* videoRef.current when no <video> is attached; the src prop when null.
NoVideo == 0
NoSrc == "null"

Urls == {"blob:a", "blob:b"}
Functions == {"f1", "f2"}
CallbackProps == [onTimeUpdate : Functions, onDurationChange : Functions, onEnded : Functions]
EventTypes == {"timeupdate", "durationchange", "ended"}
Elems == 1..MaxElems

NoEffect == [video |-> NoVideo, handlers |-> <<>>]
NoListeners == [el \in Elems |-> <<>>]

\* EventTarget.addEventListener: appended unless the same (type, callback)
\* is already registered.
AddEventListener(ls, el, type, fn) ==
    IF \E i \in 1..Len(ls[el]) : ls[el][i] = [type |-> type, fn |-> fn]
    THEN ls
    ELSE [ls EXCEPT ![el] = Append(@, [type |-> type, fn |-> fn])]

\* EventTarget.removeEventListener: the matching registration goes.
RemoveEventListener(ls, el, type, fn) ==
    LET keep == {i \in 1..Len(ls[el]) : ls[el][i] # [type |-> type, fn |-> fn]}
        nth(k) == CHOOSE i \in keep : Cardinality({j \in keep : j < i}) = k - 1
    IN  [ls EXCEPT ![el] = [k \in 1..Cardinality(keep) |-> @[nth(k)]]]

\* Function objects alive in listeners or held by the pending cleanup: a new
\* closure is a new object, named by the least number no live closure has.
ClosureIds(ls, eff) ==
    UNION {{ls[el][i].fn.id : i \in 1..Len(ls[el])} : el \in Elems} \cup
    {eff.handlers[i].fn.id : i \in 1..Len(eff.handlers)}

FreshClosureId(ls, eff) ==
    CHOOSE k \in 1..(Cardinality(ClosureIds(ls, eff)) + 1) : k \notin ClosureIds(ls, eff)

\* The function objects an effect run registers: two closures created by
\* this run, and the onEnded prop itself.
EffectHandlers(video, props, id) ==
    <<[type |-> "timeupdate",
       fn |-> [id |-> id, kind |-> "handleTimeUpdate", cb |-> props.onTimeUpdate, video |-> video]],
      [type |-> "durationchange",
       fn |-> [id |-> id, kind |-> "handleDurationChange", cb |-> props.onDurationChange,
               video |-> video]],
      [type |-> "ended", fn |-> [id |-> 0, kind |-> "prop", cb |-> props.onEnded, video |-> NoVideo]]>>

RECURSIVE AddAll(_, _, _)
AddAll(ls, el, hs) ==
    IF hs = <<>> THEN ls
    ELSE AddAll(AddEventListener(ls, el, Head(hs).type, Head(hs).fn), el, Tail(hs))

RECURSIVE RemoveAll(_, _, _)
RemoveAll(ls, el, hs) ==
    IF hs = <<>> THEN ls
    ELSE RemoveAll(RemoveEventListener(ls, el, Head(hs).type, Head(hs).fn), el, Tail(hs))

\* The effect body, run with videoRef.current = ref and the render's props:
\* the listeners after it and the cleanup it returns.
RunEffect(ls, eff, ref, props) ==
    IF ref = NoVideo THEN [listeners |-> ls, effect |-> NoEffect]
    ELSE LET hs == EffectHandlers(ref, props, FreshClosureId(ls, eff))
         IN  [listeners |-> AddAll(ls, ref, hs), effect |-> [video |-> ref, handlers |-> hs]]

\* Variant of RunCleanup that removes from videoRef.current (ref) at cleanup
\* time instead of the captured element.
MutRunCleanup(ls, eff, ref) ==
    IF eff = NoEffect \/ ref = NoVideo THEN ls ELSE RemoveAll(ls, ref, eff.handlers)

\* The cleanup the effect returned: it removes its own handlers from the
\* element it captured (ref, videoRef.current at cleanup time, is not read).
RunCleanup(ls, eff, ref) ==
    IF eff = NoEffect THEN ls ELSE RemoveAll(ls, eff.video, eff.handlers)

\* Dependency comparison of useEffect: [onTimeUpdate, onDurationChange, onEnded].
DepsChanged(old, new) ==
    \/ old.onTimeUpdate # new.onTimeUpdate
    \/ old.onDurationChange # new.onDurationChange
    \/ old.onEnded # new.onEnded

\* The element the <video ref={videoRef}> of a render is: none without src,
\* the same element while src stays non-null, a new one otherwise.
NeedsNewElem(ref, newSrc) == newSrc # NoSrc /\ ref = NoVideo
RefAfterCommit(ref, newSrc, fresh) ==
    IF newSrc = NoSrc THEN NoVideo ELSE IF ref = NoVideo THEN fresh ELSE ref

PlayerIdle ==
    /\ mounted = FALSE /\ src = NoSrc /\ cbs = Null /\ videoRef = NoVideo /\ nextElem = 0
    /\ listeners = <<>> /\ effect = NoEffect /\ effectCbs = Null /\ calls = <<>>

PlayerInit ==
    /\ mounted = FALSE /\ src = NoSrc /\ cbs = Null /\ videoRef = NoVideo /\ nextElem = 1
    /\ listeners = NoListeners /\ effect = NoEffect /\ effectCbs = Null /\ calls = <<>>

\* First render and commit of a component instance: the effect always runs.
Mount ==
    /\ ~mounted
    /\ \E newSrc \in Urls \cup {NoSrc}, props \in CallbackProps :
          /\ NeedsNewElem(NoVideo, newSrc) => nextElem <= MaxElems
          /\ LET ref == RefAfterCommit(NoVideo, newSrc, nextElem)
                 r == RunEffect(listeners, NoEffect, ref, props)
             IN  /\ videoRef' = ref
                 /\ nextElem' = IF NeedsNewElem(NoVideo, newSrc) THEN nextElem + 1 ELSE nextElem
                 /\ listeners' = r.listeners
                 /\ effect' = r.effect
                 /\ effectCbs' = props
                 /\ src' = newSrc
                 /\ cbs' = props
    /\ mounted' = TRUE
    /\ calls' = <<>>
    /\ UNCHANGED notPlayer

\* A re-render with new props and its commit: the ref is attached or
\* detached, then the effect re-runs (cleanup first) only if a dep changed.
Rerender ==
    /\ mounted
    /\ \E newSrc \in Urls \cup {NoSrc}, props \in CallbackProps :
          /\ <<newSrc, props>> # <<src, cbs>>
          /\ NeedsNewElem(videoRef, newSrc) => nextElem <= MaxElems
          /\ LET ref == RefAfterCommit(videoRef, newSrc, nextElem)
             IN  /\ videoRef' = ref
                 /\ nextElem' = IF NeedsNewElem(videoRef, newSrc) THEN nextElem + 1
                                ELSE nextElem
                 /\ IF DepsChanged(cbs, props)
                    THEN LET cleaned == RunCleanup(listeners, effect, ref)
                             r == RunEffect(cleaned, NoEffect, ref, props)
                         IN  /\ listeners' = r.listeners
                             /\ effect' = r.effect
                             /\ effectCbs' = props
                    ELSE UNCHANGED <<listeners, effect, effectCbs>>
                 /\ src' = newSrc
                 /\ cbs' = props
    /\ calls' = <<>>
    /\ UNCHANGED <<mounted, notPlayer>>

\* Unmount: the ref is detached, then the pending cleanup runs.
Unmount ==
    /\ mounted
    /\ listeners' = RunCleanup(listeners, effect, NoVideo)
    /\ effect' = NoEffect
    /\ calls' = <<>>
    /\ videoRef' = NoVideo
    /\ mounted' = FALSE
    /\ UNCHANGED <<src, cbs, nextElem, effectCbs, notPlayer>>

\* The listener function called for an event: the closures forward to the
\* prop they captured, the prop is called directly.
Invoke(fn, type) ==
    [cb |-> fn.cb,
     arg |-> CASE fn.kind = "handleTimeUpdate" -> <<"currentTime", fn.video>>
               [] fn.kind = "handleDurationChange" -> <<"duration", fn.video>>
               [] OTHER -> <<"event", type>>]

\* The mounted video fires a media event: its listeners of that type run in
\* registration order.
Dispatch ==
    /\ mounted
    /\ videoRef # NoVideo
    /\ \E type \in EventTypes :
          LET ls == SelectSeq(listeners[videoRef], LAMBDA l : l.type = type)
          IN  calls' = <<[type |-> type, target |-> videoRef]>> \o
                       [i \in 1..Len(ls) |-> Invoke(ls[i].fn, type)]
    /\ UNCHANGED <<mounted, src, cbs, videoRef, nextElem, listeners, effect, effectCbs, notPlayer>>

----------------------------------------------------------------------------
(* Specifications                                                          *)

InitWav == WavInit /\ ApiIdle /\ XIdle /\ ListIdle /\ PlayerIdle
NextWav == BufferToWavCall
SpecWav == InitWav /\ [][NextWav]_vars

InitApi == WavIdle /\ ApiInit /\ XIdle /\ ListIdle /\ PlayerIdle
NextApi == ApiStart \/ ApiSettle
SpecApi == InitApi /\ [][NextApi]_vars

InitExtract == WavIdle /\ ApiIdle /\ XInit /\ ListIdle /\ PlayerIdle
NextExtract == XCall \/ XReadFileSettles \/ XDecodeSettles \/ XRenderSettles \/ XReaderFinishes
SpecExtract == InitExtract /\ [][NextExtract]_vars

InitList == WavIdle /\ ApiIdle /\ XIdle /\ ListInit /\ PlayerIdle
NextList == RenderSubtitleList
SpecList == InitList /\ [][NextList]_vars

InitPlayer == WavIdle /\ ApiIdle /\ XIdle /\ ListIdle /\ PlayerInit
NextPlayer == Mount \/ Rerender \/ Unmount \/ Dispatch
SpecPlayer == InitPlayer /\ [][NextPlayer]_vars

----------------------------------------------------------------------------
(* Properties of bufferToWav (SpecWav)                                     *)

\* C1: every sample frame of the input is encoded at its own position: for
\* every frame k < n and channel i < c, the little-endian 16-bit sample at
\* byte offset 44 + 2*(k*c + i) of the output is the PCM16 quantisation of
\* channels[i][k].
C1_EveryFrameAtItsPosition ==
    wavPc = "done" =>
        \A k \in 0..(abuffer.length - 1), i \in 0..(abuffer.numberOfChannels - 1) :
            ViewGetInt16(wavOut, HeaderLen + 2 * (k * abuffer.numberOfChannels + i))
                = Quantise(abuffer.channels[i + 1][k + 1])

\* C5: the output is 44 + 2*n*c bytes long and its header is the PCM WAV
\* header of the payload: RIFF size = length - 8, data size = 2*n*c, format
\* tag 1, c channels, sample rate r, byte rate 2*r*c, block align 2*c,
\* 16 bits per sample (and the four chunk tags are in place).
C5_HeaderConsistent ==
    wavPc = "done" =>
        LET n == abuffer.length
            c == abuffer.numberOfChannels
            r == abuffer.sampleRate
        IN  /\ Len(wavOut) = 44 + 2 * n * c
            /\ SubSeq(wavOut, 1, 4) = <<82, 73, 70, 70>>          \* "RIFF"
            /\ ViewGetLE(wavOut, 4, 4) = Len(wavOut) - 8
            /\ SubSeq(wavOut, 9, 16) = <<87, 65, 86, 69, 102, 109, 116, 32>>  \* "WAVEfmt "
            /\ ViewGetLE(wavOut, 16, 4) = 16
            /\ ViewGetLE(wavOut, 20, 2) = 1
            /\ ViewGetLE(wavOut, 22, 2) = c
            /\ ViewGetLE(wavOut, 24, 4) = r
            /\ ViewGetLE(wavOut, 28, 4) = 2 * r * c
            /\ ViewGetLE(wavOut, 32, 2) = 2 * c
            /\ ViewGetLE(wavOut, 34, 2) = 16
            /\ SubSeq(wavOut, 37, 40) = <<100, 97, 116, 97>>      \* "data"
            /\ ViewGetLE(wavOut, 40, 4) = 2 * n * c

\* A stereo buffer longer than the header has been encoded.
C5_Witness ==
    /\ wavPc = "done"
    /\ abuffer.length > HeaderLen
    /\ abuffer.numberOfChannels = 2
    /\ abuffer.sampleRate = 44100

----------------------------------------------------------------------------
(* Properties of the Gemini operations (SpecApi)                           *)

RequestMade == apiPc = "settled" /\ apiRequests # <<>>

RethrownAndLogged(e) ==
    /\ apiOutcome.state = "rejected"
    /\ apiOutcome.reason = e
    /\ apiLog = <<[label |-> ErrorLabel(apiOp), error |-> e]>>

ParseThrew ==
    /\ apiResponse.kind = "fulfilled"
    /\ ParsesJSON(apiOp)
    /\ Truthy(apiResponse.text)
    /\ ~JSONParse(apiResponse.text).ok

\* C2: when the generateContent request rejects with e, or JSON.parse of the
\* response text throws e, the operation logs e once and its promise rejects
\* with that same e.
C2_ErrorsLoggedAndRethrown ==
    RequestMade =>
        /\ apiResponse.kind = "rejected" => RethrownAndLogged(apiResponse.error)
        /\ ParseThrew => RethrownAndLogged(JSONSyntaxError)

\* analyzeAudioDeeply got text that is no JSON, and has settled.
C2_Witness == RequestMade /\ apiOp = "analyzeAudioDeeply" /\ ParseThrew

\* C3: one invocation issues at most one generateContent request, whatever
\* the outcome; translateBatch on a non-empty array issues exactly one, whose
\* payload is the whole array.
C3_SingleShot ==
    /\ Len(apiRequests) <= 1
    /\ (apiOp = "translateBatch" /\ apiPc # "start" /\ Len(apiArg.texts) > 0) =>
            /\ Len(apiRequests) = 1
            /\ apiRequests[1].text = JSONStringify(apiArg.texts)

\* translateBatch on an array of two texts has failed.
C3_Witness ==
    /\ RequestMade
    /\ apiOp = "translateBatch"
    /\ Len(apiArg.texts) = 2
    /\ apiOutcome.state = "rejected"

UsableText(t) == t # Undefined /\ Trim(t) # <<>>

\* C9: generateSceneDescription and translateText (non-blank input) never
\* resolve to an empty string: without usable text the promise rejects with
\* the operation's Error, and a resolved value is a non-empty trimmed string.
C9_NeverResolvesEmpty ==
    (RequestMade /\ apiOp \in {"generateSceneDescription", "translateText"}
        /\ apiResponse.kind = "fulfilled") =>
        /\ ~UsableText(apiResponse.text) =>
              (apiOutcome.state = "rejected" /\ apiOutcome.reason = NoTextError(apiOp))
        /\ apiOutcome.state = "fulfilled" =>
              (apiOutcome.value # <<>> /\ Trim(apiOutcome.value) = apiOutcome.value)

----------------------------------------------------------------------------
(* Properties of extractAudioFromVideo (SpecExtract)                       *)

EventsAt(ev, stage) == {i \in 1..Len(xTrace) : xTrace[i] = Ev(ev, stage)}

\* C4: the stages run at most once and in order, each starting only after
\* the previous one has completed; once a stage fails the promise is rejected
\* and no later stage starts; the promise resolves only after the base64
\* stage has completed.
C4_LinearPipeline ==
    /\ \A k \in 1..Len(Stages) :
          /\ Cardinality(EventsAt("start", Stages[k])) <= 1
          /\ \A i \in EventsAt("start", Stages[k]) :
                k > 1 => \E j \in EventsAt("end", Stages[k - 1]) : j < i
          /\ \A i \in EventsAt("end", Stages[k]) \cup EventsAt("fail", Stages[k]) :
                \E j \in EventsAt("start", Stages[k]) : j < i
          /\ \A i \in EventsAt("fail", Stages[k]) :
                /\ xOutcome.state = "rejected"
                /\ \A j \in (i + 1)..Len(xTrace) : xTrace[j].ev # "start"
    /\ xOutcome.state = "fulfilled" => EventsAt("end", "base64") # {}
    /\ xOutcome.state = "pending" <=> xPc # "done"

\* A track longer than the WAV header went through all five stages.
C4_Witness ==
    /\ xOutcome.state = "fulfilled"
    /\ xRendered.length > HeaderLen
    /\ xOutcome.value = Base64(xBlob)

----------------------------------------------------------------------------
(* Properties of SubtitleList (SpecList)                                   *)

Count(seq, x) == Cardinality({i \in 1..Len(seq) : seq[i] = x})

\* C6: for a non-empty prop the rendered sequence is a permutation of the
\* prop with non-decreasing timestamps, and the array passed in keeps its
\* original order.
C6_RenderedSortedPermutation ==
    (listPc = "rendered" /\ passed # <<>>) =>
        /\ rendered.kind = "list"
        /\ Len(rendered.items) = Len(passed)
        /\ \A x \in SubtitleNodes : Count(rendered.items, x) = Count(passed, x)
        /\ \A i \in 1..(Len(rendered.items) - 1) :
              rendered.items[i].timestamp <= rendered.items[i + 1].timestamp
        /\ subtitles = passed

\* A prop of three records that is out of order and holds a tie was rendered.
C6_Witness ==
    /\ listPc = "rendered"
    /\ Len(passed) = 3
    /\ passed[1].timestamp > passed[2].timestamp
    /\ passed[2].timestamp = passed[3].timestamp
    /\ passed[2].id # passed[3].id

----------------------------------------------------------------------------
(* Properties of VideoPlayer (SpecPlayer)                                  *)

PropFor(props, type) ==
    CASE type = "timeupdate" -> props.onTimeUpdate
      [] type = "durationchange" -> props.onDurationChange
      [] type = "ended" -> props.onEnded

ListenersOf(el, type) == {i \in 1..Len(listeners[el]) : listeners[el][i].type = type}

\* C7: whenever a video element is mounted and the render's effects have
\* run, handlers for timeupdate, durationchange and ended are registered on
\* it, and a timeupdate event of the mounted video calls onTimeUpdate with
\* its current time.
C7_HandlersOnMountedVideo ==
    (mounted /\ videoRef # NoVideo) =>
        /\ \A type \in EventTypes :
              \E i \in ListenersOf(videoRef, type) :
                  listeners[videoRef][i].fn.cb = PropFor(cbs, type)
        /\ (calls # <<>> /\ calls[1].type = "timeupdate") =>
              \E i \in 2..Len(calls) :
                  calls[i] = [cb |-> cbs.onTimeUpdate, arg |-> <<"currentTime", videoRef>>]

\* C8: no element carries more than one component handler per event type;
\* every registered handler forwards to the callback props of the most
\* recent render whose effect ran; the registered handlers are exactly those
\* of the effect whose cleanup is pending, on the element it captured; none
\* remains after unmount.
C8_HandlersBalanced ==
    /\ \A el \in Elems, type \in EventTypes : Cardinality(ListenersOf(el, type)) <= 1
    /\ \A el \in Elems : \A i \in 1..Len(listeners[el]) :
          listeners[el][i].fn.cb = PropFor(effectCbs, listeners[el][i].type)
    /\ \A el \in Elems :
          listeners[el] = IF el = effect.video THEN effect.handlers ELSE <<>>
    /\ ~mounted => \A el \in Elems : listeners[el] = <<>>

\* A second video element is mounted while the first, detached one still
\* carries the handlers of the pending effect.
C8_Witness ==
    /\ mounted
    /\ videoRef # NoVideo
    /\ effect.video # NoVideo
    /\ effect.video # videoRef
    /\ listeners[effect.video] # <<>>

====
